---------------------------- MODULE Spec2Model ----------------------------
(***************************************************************************)
(* Workout tracker: the record store (tables workouts and exercises with   *)
(* their row-level-security policies and the cascading foreign key) and    *)
(* the three pages of the client that use it: Dashboard (the five most     *)
(* recent workouts and the counters derived from them), History (every     *)
(* workout joined with its exercises) and Workout (the form saveWorkout    *)
(* persists).                                                              *)
(*                                                                         *)
(* Text values are sequences of one-character strings, so that trim() is   *)
(* computed.  A calendar date is a day number (days since 1970-01-01, what *)
(* new Date("YYYY-MM-DD") denotes at 00:00 UTC); an instant is a number of *)
(* ticks, TicksPerDay ticks to the day.  One browser client is modelled,   *)
(* signed in as `user`; the store also serves requests of any other        *)
(* authenticated identity.                                                 *)
(***************************************************************************)
EXTENDS Integers, Sequences, FiniteSets, TLC

VARIABLES
    workouts,     \* table public.workouts: a set of rows
    exercises,    \* table public.exercises: a set of rows
    nextWid,      \* the next workouts.id gen_random_uuid() hands out
    nextEid,      \* the next exercises.id gen_random_uuid() hands out
    clock,        \* the current instant, in ticks (NOW(), new Date())
    reply,        \* the store's answer to the last direct request
    user,         \* the identity the client is signed in as (useAuth().user)
    page,         \* the mounted page: "dashboard", "history" or "workout"
    dash,         \* Dashboard's state: workouts, stats, loading
    hist,         \* History's state: workouts, loading
    form,         \* Workout's state: workoutName, workoutNotes, exercises, saving
    pc,           \* where the page's asynchronous handler stands
    hReq,         \* History's per-workout exercise requests in flight
    created,      \* saveWorkout: the row the workouts insert returned
    toast         \* the last notification raised (useToast)

vars == <<workouts, exercises, nextWid, nextEid, clock, reply, user, page,
          dash, hist, form, pc, hReq, created, toast>>

storeVars == <<workouts, exercises, nextWid, nextEid>>
clientVars == <<page, dash, hist, form, pc, hReq, created, toast>>

---------------------------------------------------------------------------
(* Bounds of the model *)

\* rows the workouts table is ever given
MaxWorkouts == 2
\* workouts the store holds when Dashboard is opened on a filled store
MaxOwned == 6
\* workouts the store holds when History's list is toggled
MaxListed == 3
\* workouts the store holds when the counters are tried
MaxCounted == 4
\* rows the direct requests ever give the exercises table
MaxExercises == 1
\* exercises the form holds
MaxForm == 2
\* the last instant the clock reaches
MaxClock == 2
\* ticks to the day
TicksPerDay == 2

---------------------------------------------------------------------------
(* Values *)

Users == {"A", "B"}

Null == "null"

\* what a user types as a workout name: nothing, a blank, a name, a padded name
WorkoutNames == {<<>>, <<" ">>, <<"a">>, <<" ", "a">>}
WorkoutNotes == {<<>>, <<"n">>}
ExerciseNames == {<<>>, <<"x">>}
ExerciseNotes == {<<>>}
\* what parseInt / parseFloat make of a typed number: a negative one, or none
Numbers == {-1, 0}

Min(a, b) == IF a <= b THEN a ELSE b

---------------------------------------------------------------------------
(* The record store: tables, constraints and row-level security *)

\* CURRENT_DATE: the calendar date of the current instant
CurrentDate == clock \div TicksPerDay

\* CREATE TABLE public.workouts: the row an INSERT of vals makes; id is
\* generated, date defaults to CURRENT_DATE, created_at and updated_at to NOW(),
\* the other columns are as given
WorkoutRow(id, vals) ==
    [id |-> id,
     user_id |-> vals.user_id,
     name |-> vals.name,
     date |-> IF "date" \in DOMAIN vals THEN vals.date ELSE CurrentDate,
     notes |-> vals.notes,
     created_at |-> clock,
     updated_at |-> clock]

\* CREATE TABLE public.exercises: the row an INSERT of vals makes; no CHECK
\* constraint looks at name, sets, reps or weight
ExerciseRow(id, vals) ==
    [id |-> id,
     workout_id |-> vals.workout_id,
     name |-> vals.name,
     sets |-> vals.sets,
     reps |-> vals.reps,
     weight |-> vals.weight,
     notes |-> vals.notes,
     created_at |-> clock]

\* a select policy that shows every row to everybody
AnyoneSelects(uid, w) == TRUE

\* "Users can view their own workouts": FOR SELECT USING (auth.uid() = user_id)
WorkoutsSelectPolicy(uid, w) == uid = w.user_id

\* "Users can create their own workouts": FOR INSERT WITH CHECK (auth.uid() = user_id)
WorkoutsInsertPolicy(uid, w) == uid = w.user_id

\* "Users can update their own workouts": FOR UPDATE USING (auth.uid() = user_id);
\* without a WITH CHECK the USING expression also checks the new row
WorkoutsUpdatePolicy(uid, w) == uid = w.user_id

\* "Users can delete their own workouts": FOR DELETE USING (auth.uid() = user_id)
WorkoutsDeletePolicy(uid, w) == uid = w.user_id

\* the subquery of the exercises policies: a workout of the caller's with the
\* exercise's workout_id, among the rows ws of workouts
OwnsWorkoutOf(uid, e, ws) ==
    \E w \in ws : w.id = e.workout_id /\ w.user_id = uid

\* "Users can view exercises from their workouts"
ExercisesSelectPolicy(uid, e, ws) == OwnsWorkoutOf(uid, e, ws)

\* "Users can create exercises in their workouts"
ExercisesInsertPolicy(uid, e, ws) == OwnsWorkoutOf(uid, e, ws)

\* "Users can delete exercises from their workouts"
ExercisesDeletePolicy(uid, e, ws) == OwnsWorkoutOf(uid, e, ws)

\* workout_id UUID NOT NULL REFERENCES public.workouts(id)
ForeignKeyOk(e, ws) == \E w \in ws : w.id = e.workout_id

\* a foreign key that lets the exercises of a deleted workout stay
NoCascade(deleted, es) == {}

\* ON DELETE CASCADE: the exercises that go with the deleted workouts
Cascade(deleted, es) == {e \in es : \E w \in deleted : e.workout_id = w.id}

\* the rows of workouts a SELECT by uid sees
VisibleWorkouts(uid, ws) == {w \in ws : WorkoutsSelectPolicy(uid, w)}

\* the rows of exercises a SELECT by uid sees
VisibleExercises(uid, es, ws) == {e \in es : ExercisesSelectPolicy(uid, e, ws)}

\* the rows with the dates ascending
RECURSIVE OrderByDateAsc(_)
OrderByDateAsc(rows) ==
    IF rows = {} THEN {<<>>}
    ELSE LET first == {r \in rows : \A q \in rows : r.date <= q.date}
         IN UNION {{<<r>> \o s : s \in OrderByDateAsc(rows \ {r})} : r \in first}

\* .order('date', { ascending: false }): every arrangement of rows with the
\* dates descending; the order among equal dates is the store's to choose
RECURSIVE OrderByDateDesc(_)
OrderByDateDesc(rows) ==
    IF rows = {} THEN {<<>>}
    ELSE LET first == {r \in rows : \A q \in rows : q.date <= r.date}
         IN UNION {{<<r>> \o s : s \in OrderByDateDesc(rows \ {r})} : r \in first}

\* a query without its limit
Unlimited(s, n) == s

\* .limit(n)
Limit(s, n) == SubSeq(s, 1, Min(n, Len(s)))

\* from('exercises').select('*').eq('workout_id', wid), asked by uid; the
\* result carries no order, it is kept as a set
SelectExercises(uid, wid) ==
    {e \in VisibleExercises(uid, exercises, workouts) : e.workout_id = wid}

\* the exercises rows a batch INSERT of the values in batch (a sequence) makes
BatchRows(batch) ==
    {ExerciseRow(nextEid + i - 1, batch[i]) : i \in 1..Len(batch)}

\* whether the store accepts the batch from uid: every row passes the foreign
\* key and the insert policy; one statement, so all rows or none
BatchAccepted(uid, batch) ==
    \A i \in 1..Len(batch) :
        /\ ForeignKeyOk(batch[i], workouts)
        /\ ExercisesInsertPolicy(uid, batch[i], workouts)

\* the answer to a direct request: the error if any, the number of rows of
\* the table it touched and the number of exercises a cascade took with them
NoReply ==
    [op |-> "none", uid |-> Null, target |-> 0, error |-> Null, count |-> 0,
     cascaded |-> 0]

---------------------------------------------------------------------------
(* Requests any authenticated identity sends to the store directly.  Each is *)
(* given as its effect on the tables and as the answer the store returns.    *)

\* the dates a direct workouts insert names
DirectDates == {0, 1}

\* the values of a direct workouts insert: the owner named, and a date or none
DirectWorkouts ==
    {[user_id |-> owner, name |-> <<"a">>, notes |-> <<>>] : owner \in Users}
        \cup {[user_id |-> owner, name |-> <<"a">>, notes |-> <<>>, date |-> date] :
                 owner \in Users, date \in DirectDates}

\* the values of a direct exercises insert for workout wid
DirectExercise(wid) ==
    [workout_id |-> wid, name |-> <<"x">>, sets |-> 0, reps |-> 0, weight |-> 0,
     notes |-> <<>>]

\* INSERT INTO workouts VALUES vals, by uid: the insert policy checks the row
InsertWorkoutRows(uid, vals) ==
    IF WorkoutsInsertPolicy(uid, vals)
    THEN /\ nextWid <= MaxWorkouts
         /\ workouts' = workouts \cup {WorkoutRow(nextWid, vals)}
         /\ nextWid' = nextWid + 1
         /\ UNCHANGED <<exercises, nextEid>>
    ELSE UNCHANGED storeVars

InsertWorkoutReply(uid, vals) ==
    IF WorkoutsInsertPolicy(uid, vals)
    THEN [op |-> "insert_workout", uid |-> uid, target |-> nextWid,
          error |-> Null, count |-> 1, cascaded |-> 0]
    ELSE [op |-> "insert_workout", uid |-> uid, target |-> 0,
          error |-> "row-level security", count |-> 0, cascaded |-> 0]

\* the rows DELETE FROM workouts WHERE id = wid deletes for uid: the rows the
\* delete policy hides are passed over
DeletedWorkouts(uid, wid) ==
    {w \in workouts : w.id = wid /\ WorkoutsDeletePolicy(uid, w)}

\* DELETE FROM workouts WHERE id = wid, by uid
DeleteWorkoutRows(uid, wid) ==
    /\ workouts' = workouts \ DeletedWorkouts(uid, wid)
    /\ exercises' = exercises \ Cascade(DeletedWorkouts(uid, wid), exercises)
    /\ UNCHANGED <<nextWid, nextEid>>

\* a DELETE that finds no row it may delete is no error: it deleted 0 rows
DeleteWorkoutReply(uid, wid) ==
    [op |-> "delete_workout", uid |-> uid, target |-> wid,
     error |-> Null, count |-> Cardinality(DeletedWorkouts(uid, wid)),
     cascaded |-> Cardinality(Cascade(DeletedWorkouts(uid, wid), exercises))]

\* INSERT INTO exercises of one row for workout wid, by uid
InsertExerciseRows(uid, wid) ==
    IF BatchAccepted(uid, <<DirectExercise(wid)>>)
    THEN /\ nextEid <= MaxExercises
         /\ exercises' = exercises \cup BatchRows(<<DirectExercise(wid)>>)
         /\ nextEid' = nextEid + 1
         /\ UNCHANGED <<workouts, nextWid>>
    ELSE UNCHANGED storeVars

InsertExerciseReply(uid, wid) ==
    IF BatchAccepted(uid, <<DirectExercise(wid)>>)
    THEN [op |-> "insert_exercise", uid |-> uid, target |-> wid,
          error |-> Null, count |-> 1, cascaded |-> 0]
    ELSE [op |-> "insert_exercise", uid |-> uid, target |-> wid,
          error |-> "rejected", count |-> 0, cascaded |-> 0]

\* update_updated_at_column(): the trigger gives the new row NOW() as updated_at
update_updated_at_column(new) == [new EXCEPT !.updated_at = clock]

\* the notes a direct workouts update writes
DirectNotes == <<"n">>

\* the rows UPDATE workouts SET notes = ... WHERE id = wid updates for uid: the
\* rows the update policy hides are passed over
UpdatedWorkouts(uid, wid) ==
    {w \in workouts : w.id = wid /\ WorkoutsUpdatePolicy(uid, w)}

\* UPDATE workouts SET notes = DirectNotes WHERE id = wid, by uid; the trigger
\* update_workouts_updated_at runs BEFORE UPDATE for each row
UpdateWorkoutRows(uid, wid) ==
    /\ workouts' = (workouts \ UpdatedWorkouts(uid, wid)) \cup
                      {update_updated_at_column([w EXCEPT !.notes = DirectNotes]) :
                          w \in UpdatedWorkouts(uid, wid)}
    /\ UNCHANGED <<exercises, nextWid, nextEid>>

\* an UPDATE that finds no row it may update is no error: it updated 0 rows
UpdateWorkoutReply(uid, wid) ==
    [op |-> "update_workout", uid |-> uid, target |-> wid,
     error |-> Null, count |-> Cardinality(UpdatedWorkouts(uid, wid)),
     cascaded |-> 0]

\* the rows DELETE FROM exercises WHERE id = eid deletes for uid
DeletedExercises(uid, eid) ==
    {e \in exercises : e.id = eid /\ ExercisesDeletePolicy(uid, e, workouts)}

\* DELETE FROM exercises WHERE id = eid, by uid
DeleteExerciseRows(uid, eid) ==
    /\ exercises' = exercises \ DeletedExercises(uid, eid)
    /\ UNCHANGED <<workouts, nextWid, nextEid>>

DeleteExerciseReply(uid, eid) ==
    [op |-> "delete_exercise", uid |-> uid, target |-> eid,
     error |-> Null, count |-> Cardinality(DeletedExercises(uid, eid)),
     cascaded |-> 0]

\* the requests with their answers observed
InsertWorkout(uid, vals) ==
    /\ InsertWorkoutRows(uid, vals)
    /\ reply' = InsertWorkoutReply(uid, vals)
    /\ UNCHANGED <<clock, user, clientVars>>

DeleteWorkout(uid, wid) ==
    /\ DeleteWorkoutRows(uid, wid)
    /\ reply' = DeleteWorkoutReply(uid, wid)
    /\ UNCHANGED <<clock, user, clientVars>>

\* a row is written again at a later instant than it was written last
UpdateWorkout(uid, wid) ==
    /\ \A w \in UpdatedWorkouts(uid, wid) : w.updated_at < clock
    /\ UpdateWorkoutRows(uid, wid)
    /\ reply' = UpdateWorkoutReply(uid, wid)
    /\ UNCHANGED <<clock, user, clientVars>>

InsertExercise(uid, wid) ==
    /\ InsertExerciseRows(uid, wid)
    /\ reply' = InsertExerciseReply(uid, wid)
    /\ UNCHANGED <<clock, user, clientVars>>

DeleteExercise(uid, eid) ==
    /\ DeleteExerciseRows(uid, eid)
    /\ reply' = DeleteExerciseReply(uid, eid)
    /\ UNCHANGED <<clock, user, clientVars>>

\* the requests of the other sessions, seen from the client: only the tables
\* change
OtherInsertWorkout(uid, vals) ==
    /\ InsertWorkoutRows(uid, vals)
    /\ UNCHANGED <<clock, reply, user, clientVars>>

OtherDeleteWorkout(uid, wid) ==
    /\ DeleteWorkoutRows(uid, wid)
    /\ UNCHANGED <<clock, reply, user, clientVars>>

OtherInsertExercise(uid, wid) ==
    /\ InsertExerciseRows(uid, wid)
    /\ UNCHANGED <<clock, reply, user, clientVars>>

OtherDeleteExercise(uid, eid) ==
    /\ DeleteExerciseRows(uid, eid)
    /\ UNCHANGED <<clock, reply, user, clientVars>>

\* time passes
Tick ==
    /\ clock < MaxClock
    /\ clock' = clock + 1
    /\ UNCHANGED <<storeVars, reply, user, clientVars>>

---------------------------------------------------------------------------
(* The client: one page mounted at a time *)

\* Dashboard: .limit(5)
RecentLimit == 5

NoToast == [title |-> "", variant |-> ""]
NameRequiredToast == [title |-> "Nome do treino obrigatorio", variant |-> "destructive"]
NoExerciseToast == [title |-> "Adicione pelo menos um exercicio", variant |-> "destructive"]
SaveErrorToast == [title |-> "Erro ao salvar treino", variant |-> "destructive"]
SavedToast == [title |-> "Treino salvo!", variant |-> "default"]
DashboardErrorToast == [title |-> "Erro ao carregar treinos", variant |-> "destructive"]
HistoryErrorToast == [title |-> "Erro ao carregar historico", variant |-> "destructive"]

\* useState's initial values of Dashboard
DashInit ==
    [workouts |-> <<>>,
     stats |-> [totalWorkouts |-> 0, thisWeek |-> 0, thisMonth |-> 0],
     loading |-> TRUE]

\* useState's initial values of History
HistInit == [workouts |-> <<>>, loading |-> TRUE]

\* useState's initial values of Workout
FormInit ==
    [workoutName |-> <<>>, workoutNotes |-> <<>>, exercises |-> <<>>, saving |-> FALSE]

NoWorkout == [id |-> 0]

\* String.prototype.trim
IsSpace(c) == c = " "

RECURSIVE TrimStart(_)
TrimStart(s) ==
    IF s # <<>> /\ IsSpace(Head(s)) THEN TrimStart(Tail(s)) ELSE s

RECURSIVE TrimEnd(_)
TrimEnd(s) ==
    IF s # <<>> /\ IsSpace(s[Len(s)]) THEN TrimEnd(SubSeq(s, 1, Len(s) - 1)) ELSE s

trim(s) == TrimEnd(TrimStart(s))

\* new Date(w.date).getTime(): a date-only string denotes 00:00 UTC of the day
DateInstant(d) == d * TicksPerDay

\* the day number new Date("y-m-d") denotes: days since 1970-01-01 in the
\* proleptic Gregorian calendar
DaysFromCivil(y, m, d) ==
    LET yy == IF m <= 2 THEN y - 1 ELSE y
        era == yy \div 400
        yoe == yy - era * 400
        mp == IF m > 2 THEN m - 3 ELSE m + 9
        doy == (153 * mp + 2) \div 5 + d - 1
        doe == yoe * 365 + yoe \div 4 - yoe \div 100 + doy
    IN era * 146097 + doe - 719468

\* counters with the two windows exchanged
calculateStatsSwapped(ws, now) ==
    LET weekAgo == now - 7 * TicksPerDay
        monthAgo == now - 30 * TicksPerDay
        thisWeek == Cardinality({i \in 1..Len(ws) : DateInstant(ws[i].date) >= monthAgo})
        thisMonth == Cardinality({i \in 1..Len(ws) : DateInstant(ws[i].date) >= weekAgo})
    IN [totalWorkouts |-> Len(ws), thisWeek |-> thisWeek, thisMonth |-> thisMonth]

\* calculateStats(workouts) at the instant now
calculateStats(ws, now) ==
    LET weekAgo == now - 7 * TicksPerDay
        monthAgo == now - 30 * TicksPerDay
        thisWeek == Cardinality({i \in 1..Len(ws) : DateInstant(ws[i].date) >= weekAgo})
        thisMonth == Cardinality({i \in 1..Len(ws) : DateInstant(ws[i].date) >= monthAgo})
    IN [totalWorkouts |-> Len(ws), thisWeek |-> thisWeek, thisMonth |-> thisMonth]

\* a route's component mounts: its state is initial, and Dashboard and
\* History call fetchWorkouts() from their effect
Mount(p) ==
    /\ page' = p
    /\ dash' = DashInit
    /\ hist' = HistInit
    /\ form' = FormInit
    /\ hReq' = <<>>
    /\ created' = NoWorkout
    /\ pc' = IF p = "workout" THEN "idle" ELSE "fetch"

\* navigate(p) from a button of the mounted page; the buttons are rendered
\* once loading is false
Navigate(p) ==
    /\ pc = "idle"
    /\ p # page
    /\ \/ page = "dashboard" /\ p \in {"workout", "history"}
       \/ page = "history" /\ p = "dashboard"
       \/ page = "history" /\ p = "workout" /\ Len(hist.workouts) = 0
       \/ page = "workout" /\ p = "dashboard"
    /\ Mount(p)
    /\ UNCHANGED <<storeVars, clock, reply, user, toast>>

\* Dashboard.fetchWorkouts: the query is answered
DashboardFetch ==
    /\ page = "dashboard"
    /\ pc = "fetch"
    /\ pc' = "idle"
    /\ \/ \E s \in OrderByDateDesc(VisibleWorkouts(user, workouts)) :
            LET data == Limit(s, RecentLimit)
            IN /\ dash' = [workouts |-> data,
                           stats |-> calculateStats(data, clock),
                           loading |-> FALSE]
               /\ UNCHANGED toast
       \/ /\ dash' = [dash EXCEPT !.loading = FALSE]
          /\ toast' = DashboardErrorToast
    /\ UNCHANGED <<storeVars, clock, reply, user, page, hist, form, hReq, created>>

\* History.fetchWorkouts, the join: Promise.all's result, each workout with
\* the exercises its own request returned (exercises || [])
Joined(reqs) ==
    [i \in 1..Len(reqs) |->
        reqs[i].workout @@ [exercises |-> reqs[i].exercises, expanded |-> FALSE]]

\* History.fetchWorkouts: the workouts query is answered, and one exercises
\* request per workout is sent
HistoryFetch ==
    /\ page = "history"
    /\ pc = "fetch"
    /\ \/ \E s \in OrderByDateDesc(VisibleWorkouts(user, workouts)) :
            /\ hReq' = [i \in 1..Len(s) |->
                           [workout |-> s[i], done |-> FALSE, failed |-> FALSE,
                            exercises |-> {}]]
            /\ IF Len(s) = 0
               THEN /\ pc' = "idle"
                    /\ hist' = [workouts |-> <<>>, loading |-> FALSE]
               ELSE /\ pc' = "exercises"
                    /\ UNCHANGED hist
            /\ UNCHANGED toast
       \/ /\ pc' = "idle"
          /\ hist' = [hist EXCEPT !.loading = FALSE]
          /\ toast' = HistoryErrorToast
          /\ UNCHANGED hReq
    /\ UNCHANGED <<storeVars, clock, reply, user, page, dash, form, created>>

\* History.fetchWorkouts: the exercises request of the i-th workout is
\* answered, with rows or with an error (data null); the last answer resolves
\* Promise.all
HistoryExercises(i) ==
    /\ page = "history"
    /\ pc = "exercises"
    /\ i \in 1..Len(hReq)
    /\ ~hReq[i].done
    /\ \E ok \in BOOLEAN :
        LET rows == SelectExercises(user, hReq[i].workout.id)
            reqs == [hReq EXCEPT ![i] =
                        [@ EXCEPT !.done = TRUE, !.failed = ~ok,
                                  !.exercises = IF ok THEN rows ELSE {}]]
        IN /\ hReq' = reqs
           /\ IF \A j \in 1..Len(reqs) : reqs[j].done
              THEN /\ hist' = [workouts |-> Joined(reqs), loading |-> FALSE]
                   /\ pc' = "idle"
              ELSE UNCHANGED <<hist, pc>>
    /\ UNCHANGED <<storeVars, clock, reply, user, page, dash, form, created, toast>>

\* a map that flips every workout
ToggledAll(ws, id) ==
    [i \in 1..Len(ws) |-> [ws[i] EXCEPT !.expanded = ~ws[i].expanded]]

\* toggleWorkout's workouts.map(...): the workout with the id has its expanded
\* negated, the others are passed on
Toggled(ws, id) ==
    [i \in 1..Len(ws) |->
        IF ws[i].id = id THEN [ws[i] EXCEPT !.expanded = ~ws[i].expanded] ELSE ws[i]]

\* History.toggleWorkout(id); the list is rendered once loading is false
toggleWorkout(id) ==
    /\ page = "history"
    /\ ~hist.loading
    /\ hist' = [hist EXCEPT !.workouts = Toggled(hist.workouts, id)]
    /\ UNCHANGED <<storeVars, clock, reply, user, page, dash, form, pc, hReq,
                   created, toast>>

---------------------------------------------------------------------------
(* The Workout page.  The form's exercises are told apart by their place in  *)
(* the list: their ids (crypto.randomUUID()) are distinct and are not sent   *)
(* to the store.  saveWorkout works on the values its closure captured when  *)
(* the button was clicked, so the form is constant while it runs.            *)

\* addExercise's newExercise
NewExercise == [name |-> <<>>, sets |-> 0, reps |-> 0, weight |-> 0, notes |-> <<>>]

\* the number of fields of e the spec calls invalid: an empty name, a negative
\* sets, reps or weight
Defects(e) ==
    Cardinality({f \in {"sets", "reps", "weight"} : e[f] < 0})
        + (IF e.name = <<>> THEN 1 ELSE 0)

\* what updateExercise makes of an exercise of the form: each field holds what
\* was typed into its input.  The entries tried have at most one invalid field.
FormExercises ==
    {e \in [name : ExerciseNames, sets : Numbers, reps : Numbers,
            weight : Numbers, notes : ExerciseNotes] : Defects(e) <= 1}

\* the exercise lists of at most n entries
RECURSIVE ExerciseLists(_)
ExerciseLists(n) ==
    IF n = 0 THEN {<<>>}
    ELSE ExerciseLists(n - 1) \cup
         {Append(l, e) : l \in {x \in ExerciseLists(n - 1) : Len(x) = n - 1},
                         e \in FormExercises}

\* what the form holds once the user has typed: setWorkoutName, setWorkoutNotes,
\* addExercise, updateExercise and removeExercise reach every such content
Forms ==
    [workoutName : WorkoutNames, workoutNotes : WorkoutNotes,
     exercises : ExerciseLists(MaxForm), saving : {FALSE}]

\* saveWorkout without its check of the name
saveWorkoutUnchecked ==
    /\ page = "workout"
    /\ pc = "idle"
    /\ IF Len(form.exercises) = 0
       THEN /\ toast' = NoExerciseToast
            /\ UNCHANGED <<form, pc>>
       ELSE /\ form' = [form EXCEPT !.saving = TRUE]
            /\ pc' = "insert_workout"
            /\ UNCHANGED toast
    /\ UNCHANGED <<storeVars, clock, reply, user, page, dash, hist, hReq, created>>

\* saveWorkout up to its first await: the two checks, setSaving(true), and the
\* workouts insert is sent
saveWorkout ==
    /\ page = "workout"
    /\ pc = "idle"
    /\ IF trim(form.workoutName) = <<>>
       THEN /\ toast' = NameRequiredToast
            /\ UNCHANGED <<form, pc>>
       ELSE IF Len(form.exercises) = 0
       THEN /\ toast' = NoExerciseToast
            /\ UNCHANGED <<form, pc>>
       ELSE /\ form' = [form EXCEPT !.saving = TRUE]
            /\ pc' = "insert_workout"
            /\ UNCHANGED toast
    /\ UNCHANGED <<storeVars, clock, reply, user, page, dash, hist, hReq, created>>

\* an insert that sends the name trimmed
WorkoutValuesTrimmed ==
    [user_id |-> user, name |-> trim(form.workoutName), notes |-> form.workoutNotes]

\* the values of saveWorkout's workouts insert
WorkoutValues == [user_id |-> user, name |-> form.workoutName, notes |-> form.workoutNotes]

\* an exercisesData that names no workout
ExercisesDataUnbound(workout) ==
    [i \in 1..Len(form.exercises) |->
        [workout_id |-> 0,
         name |-> form.exercises[i].name,
         sets |-> form.exercises[i].sets,
         reps |-> form.exercises[i].reps,
         weight |-> form.exercises[i].weight,
         notes |-> form.exercises[i].notes]]

\* saveWorkout's exercisesData
ExercisesData(workout) ==
    [i \in 1..Len(form.exercises) |->
        [workout_id |-> workout.id,
         name |-> form.exercises[i].name,
         sets |-> form.exercises[i].sets,
         reps |-> form.exercises[i].reps,
         weight |-> form.exercises[i].weight,
         notes |-> form.exercises[i].notes]]

\* a catch without the finally
SaveFailedStillSaving ==
    /\ toast' = SaveErrorToast
    /\ UNCHANGED form
    /\ pc' = "idle"

\* a catch that raises no notification
SaveFailedUnreported ==
    /\ UNCHANGED toast
    /\ form' = [form EXCEPT !.saving = FALSE]
    /\ pc' = "idle"

\* saveWorkout's catch and finally
SaveFailed ==
    /\ toast' = SaveErrorToast
    /\ form' = [form EXCEPT !.saving = FALSE]
    /\ pc' = "idle"

\* saveWorkout: the workouts insert is answered, with the new row or with an
\* error; on the row, exercisesData is built and the exercises insert is sent
saveWorkoutInserted ==
    /\ page = "workout"
    /\ pc = "insert_workout"
    /\ \/ /\ WorkoutsInsertPolicy(user, WorkoutValues)
          /\ nextWid <= MaxWorkouts
          /\ workouts' = workouts \cup {WorkoutRow(nextWid, WorkoutValues)}
          /\ nextWid' = nextWid + 1
          /\ created' = WorkoutRow(nextWid, WorkoutValues)
          /\ pc' = "insert_exercises"
          /\ UNCHANGED <<form, toast>>
       \/ /\ SaveFailed
          /\ UNCHANGED <<workouts, nextWid, created>>
    /\ UNCHANGED <<exercises, nextEid, clock, reply, user, page, dash, hist, hReq>>

\* saveWorkout: the exercises insert is answered; on success the toast and
\* navigate('/'), on an error the catch
saveWorkoutExercisesInserted ==
    /\ page = "workout"
    /\ pc = "insert_exercises"
    /\ \/ /\ BatchAccepted(user, ExercisesData(created))
          /\ exercises' = exercises \cup BatchRows(ExercisesData(created))
          /\ nextEid' = nextEid + Len(form.exercises)
          /\ toast' = SavedToast
          /\ Mount("dashboard")
       \/ /\ SaveFailed
          /\ UNCHANGED <<exercises, nextEid, page, dash, hist, hReq, created>>
    /\ UNCHANGED <<workouts, nextWid, clock, reply, user>>

---------------------------------------------------------------------------
(* The system *)

\* the app is opened: nobody has stored anything, Dashboard is mounted
Init ==
    /\ workouts = {}
    /\ exercises = {}
    /\ nextWid = 1
    /\ nextEid = 1
    /\ clock = 0
    /\ reply = NoReply
    /\ user = "A"
    /\ page = "dashboard"
    /\ dash = DashInit
    /\ hist = HistInit
    /\ form = FormInit
    /\ pc = "fetch"
    /\ hReq = <<>>
    /\ created = NoWorkout
    /\ toast = NoToast

\* the Workout page is open and its form filled in
InitSave ==
    /\ workouts = {}
    /\ exercises = {}
    /\ nextWid = 1
    /\ nextEid = 1
    /\ clock = 0
    /\ reply = NoReply
    /\ user = "A"
    /\ page = "workout"
    /\ dash = DashInit
    /\ hist = HistInit
    /\ form \in Forms
    /\ pc = "idle"
    /\ hReq = <<>>
    /\ created = NoWorkout
    /\ toast = NoToast

Pages == {"dashboard", "history", "workout"}

\* the store alone, serving the requests of any identity
NextStore ==
    \/ \E uid \in Users, vals \in DirectWorkouts : InsertWorkout(uid, vals)
    \/ \E uid \in Users, wid \in 1..MaxWorkouts : DeleteWorkout(uid, wid)
    \/ \E uid \in Users, wid \in 1..MaxWorkouts : InsertExercise(uid, wid)
    \/ \E uid \in Users, eid \in 1..MaxExercises : DeleteExercise(uid, eid)

SpecStore == Init /\ [][NextStore]_vars

\* the store over time: workouts are created and updated and are given
\* exercises
NextTouch ==
    \/ \E uid \in Users, vals \in DirectWorkouts : InsertWorkout(uid, vals)
    \/ \E uid \in Users, wid \in 1..MaxWorkouts : UpdateWorkout(uid, wid)
    \/ \E uid \in Users, wid \in 1..MaxWorkouts : InsertExercise(uid, wid)
    \/ Tick

SpecTouch == Init /\ [][NextTouch]_vars

\* the app is opened on Dashboard or on History: nobody has stored anything
InitRead ==
    /\ workouts = {}
    /\ exercises = {}
    /\ nextWid = 1
    /\ nextEid = 1
    /\ clock = 0
    /\ reply = NoReply
    /\ user = "A"
    /\ page \in {"dashboard", "history"}
    /\ dash = DashInit
    /\ hist = HistInit
    /\ form = FormInit
    /\ pc = "fetch"
    /\ hReq = <<>>
    /\ created = NoWorkout
    /\ toast = NoToast

\* the browser reloads the page: the app starts again, the mounted page's
\* component mounts with no notification shown
Reload ==
    /\ pc = "idle"
    /\ Mount(page)
    /\ toast' = NoToast
    /\ UNCHANGED <<storeVars, clock, reply, user>>

\* the pages that read the store, while the other sessions write to it
NextRead ==
    \/ \E uid \in Users, vals \in DirectWorkouts : OtherInsertWorkout(uid, vals)
    \/ \E uid \in Users, wid \in 1..MaxWorkouts : OtherDeleteWorkout(uid, wid)
    \/ \E uid \in Users, wid \in 1..MaxWorkouts : OtherInsertExercise(uid, wid)
    \/ \E uid \in Users, eid \in 1..MaxExercises : OtherDeleteExercise(uid, eid)
    \/ Reload
    \/ DashboardFetch
    \/ HistoryFetch
    \/ \E i \in 1..MaxWorkouts : HistoryExercises(i)

SpecRead == InitRead /\ [][NextRead]_vars

\* the rows a store holds whose k-th workout belongs to owner[k] and is dated
\* date[k]
Stored(owner, date) ==
    {[id |-> k, user_id |-> owner[k], name |-> <<"a">>, date |-> date[k],
      notes |-> <<>>, created_at |-> DateInstant(date[k]),
      updated_at |-> DateInstant(date[k])] : k \in DOMAIN owner}

\* Dashboard is opened on the store holding ws, at the instant now
InitOn(ws, now) ==
    /\ workouts = ws
    /\ exercises = {}
    /\ nextWid = Cardinality(ws) + 1
    /\ nextEid = 1
    /\ clock = now
    /\ reply = NoReply
    /\ user = "A"
    /\ page = "dashboard"
    /\ dash = DashInit
    /\ hist = HistInit
    /\ form = FormInit
    /\ pc = "fetch"
    /\ hReq = <<>>
    /\ created = NoWorkout
    /\ toast = NoToast

\* Dashboard is opened on a store of up to MaxOwned workouts of either user,
\* two to a day
InitDash ==
    \E n \in 0..MaxOwned : \E owner \in [1..n -> Users] :
        InitOn(Stored(owner, [k \in 1..n |-> k \div 2]), 0)

NextDash == DashboardFetch

SpecDash == InitDash /\ [][NextDash]_vars

\* the dates of the workouts the counters are tried on: the day before the
\* day Dashboard is opened, the days 6, 7 and 30 days before it, and an older one
StatsDates ==
    {DaysFromCivil(2025, 1, 30), DaysFromCivil(2025, 1, 25),
     DaysFromCivil(2025, 1, 24), DaysFromCivil(2025, 1, 1),
     DaysFromCivil(2024, 12, 1)}

\* the instants of 2025-01-31, from 00:00 UTC on
StatsNows ==
    {DateInstant(DaysFromCivil(2025, 1, 31)) + t : t \in 0..(TicksPerDay - 1)}

\* Dashboard is opened on 2025-01-31 on a store of up to MaxCounted workouts
\* of the user
InitStats ==
    \E n \in 0..MaxCounted : \E date \in [1..n -> StatsDates] : \E now \in StatsNows :
        InitOn(Stored([k \in 1..n |-> "A"], date), now)

SpecStats == InitStats /\ [][NextDash]_vars

\* the client alone: a filled-in form is saved, and Dashboard shows the result
Next ==
    \/ saveWorkout
    \/ saveWorkoutInserted
    \/ saveWorkoutExercisesInserted
    \/ \E p \in Pages \ {"history"} : Navigate(p)
    \/ DashboardFetch
    \/ Tick

Spec == InitSave /\ [][Next]_vars

\* the exercises a store holds, one for each workout whose id is in ids
StoredExercises(ids) ==
    {[id |-> k, workout_id |-> k, name |-> <<"x">>, sets |-> 0, reps |-> 0,
      weight |-> 0, notes |-> <<>>, created_at |-> 0] : k \in ids}

\* History is opened on a store of up to MaxListed workouts of either user,
\* some of them with an exercise
InitToggle ==
    \E n \in 0..MaxListed : \E owner \in [1..n -> Users] : \E ids \in SUBSET (1..n) :
        /\ workouts = Stored(owner, [k \in 1..n |-> k \div 2])
        /\ exercises = StoredExercises(ids)
        /\ nextWid = n + 1
        /\ nextEid = n + 1
        /\ clock = 0
        /\ reply = NoReply
        /\ user = "A"
        /\ page = "history"
        /\ dash = DashInit
        /\ hist = HistInit
        /\ form = FormInit
        /\ pc = "fetch"
        /\ hReq = <<>>
        /\ created = NoWorkout
        /\ toast = NoToast

\* the ids toggleWorkout is called with: those of the stored workouts and one
\* of no workout
ToggleIds == 1..(MaxListed + 1)

\* History fetches its list and the user toggles its entries
NextToggle ==
    \/ HistoryFetch
    \/ \E i \in 1..MaxListed : HistoryExercises(i)
    \/ \E id \in ToggleIds : toggleWorkout(id)

SpecToggle == InitToggle /\ [][NextToggle]_vars

\* the client alone, with all three pages: the form is saved, and Dashboard
\* and History fetch what was stored
NextBusy ==
    \/ saveWorkout
    \/ saveWorkoutInserted
    \/ saveWorkoutExercisesInserted
    \/ \E p \in Pages : Navigate(p)
    \/ DashboardFetch
    \/ HistoryFetch
    \/ \E i \in 1..MaxWorkouts : HistoryExercises(i)

\* forms of at most one exercise take every path of the save: rejected,
\* failed at either insert, saved with and without exercises
InitBusy ==
    /\ InitSave
    /\ Len(form.exercises) <= 1

\* the store answers every request sent to it
StoreResponds ==
    /\ WF_vars(saveWorkoutInserted)
    /\ WF_vars(saveWorkoutExercisesInserted)
    /\ WF_vars(DashboardFetch)
    /\ WF_vars(HistoryFetch)
    /\ \A i \in 1..MaxWorkouts : WF_vars(HistoryExercises(i))

SpecBusy == InitBusy /\ [][NextBusy]_vars /\ StoreResponds

---------------------------------------------------------------------------
(* Properties *)

\* C1: whatever the store holds, saveWorkout invoked with an empty workout
\* name sends no insert, leaves workouts and exercises as they are and raises
\* the validation notification
C1_EmptyNameRejected ==
    [][(saveWorkout /\ form.workoutName = <<>>) =>
           /\ pc' = "idle"
           /\ UNCHANGED storeVars
           /\ toast' = NameRequiredToast]_vars

\* saveWorkout has refused an empty name on a store that holds a workout
C1_EmptyNameWitness ==
    /\ page = "workout"
    /\ form.workoutName = <<>>
    /\ toast = NameRequiredToast
    /\ workouts # {}

\* C2: a batch in which an exercise has an empty name or a negative sets, reps
\* or weight fails, and no exercise of the batch is created
C2_InvalidBatchRefused ==
    [][(saveWorkoutExercisesInserted
          /\ \E i \in 1..Len(form.exercises) : Defects(form.exercises[i]) > 0) =>
           /\ exercises' = exercises
           /\ toast' = SaveErrorToast]_vars

\* the store holds an exercise with an empty name or a negative number, and
\* the user was told the workout is saved
C2_InvalidStored ==
    /\ toast = SavedToast
    /\ \E e \in exercises : Defects(e) > 0

\* C3: after any sequence of workout creations, exercise insertions and
\* deletions every stored exercise references exactly one workout that exists,
\* and once a workout is deleted no exercise with its id is left
C3_ExercisesReferenceWorkouts ==
    /\ [](\A e \in exercises : Cardinality({w \in workouts : w.id = e.workout_id}) = 1)
    /\ [][\A uid \in Users, wid \in 1..MaxWorkouts :
             (DeleteWorkout(uid, wid) /\ reply'.count > 0) =>
                 {e \in exercises' : e.workout_id = wid} = {}]_vars

\* a workout that had an exercise has been deleted
C3_CascadeWitness ==
    /\ reply.op = "delete_workout"
    /\ reply.count = 1
    /\ reply.cascaded = 1

\* C4: when a user who does not own a workout calls deleteWorkout on it, the
\* call is answered with an error, and the workout and its exercises stay
C4_ForeignDeleteFails ==
    [][\A uid \in Users, wid \in 1..MaxWorkouts :
          (DeleteWorkout(uid, wid) /\ \E w \in workouts : w.id = wid /\ w.user_id # uid) =>
              /\ reply'.error # Null
              /\ workouts' = workouts
              /\ exercises' = exercises]_vars

\* a user's delete of another user's workout, which has an exercise, was
\* answered without an error and with no row deleted
C4_ForeignDeleteAnswered ==
    /\ reply.op = "delete_workout"
    /\ reply.error = Null
    /\ reply.count = 0
    /\ \E w \in workouts :
          /\ w.id = reply.target
          /\ w.user_id # reply.uid
          /\ \E e \in exercises : e.workout_id = w.id

\* C5: the list Dashboard or History holds has only workouts of the signed-in
\* user, every exercise attached to a listed workout belongs to a listed
\* workout of that user, and every step leaves the workouts of the users other
\* than uid and the exercises of their workouts as they were, unless it is no
\* request of uid's
C5_OnlyOwnRecords ==
    /\ [](/\ \A i \in 1..Len(dash.workouts) : dash.workouts[i].user_id = user
          /\ \A i \in 1..Len(hist.workouts) :
                /\ hist.workouts[i].user_id = user
                /\ \A e \in hist.workouts[i].exercises :
                      \E j \in 1..Len(hist.workouts) :
                          /\ hist.workouts[j].id = e.workout_id
                          /\ hist.workouts[j].user_id = user)
    /\ [][\A uid \in Users :
             \/ /\ {w \in workouts' : w.user_id # uid} = {w \in workouts : w.user_id # uid}
                /\ {e \in exercises' : ~OwnsWorkoutOf(uid, e, workouts')}
                      = {e \in exercises : ~OwnsWorkoutOf(uid, e, workouts)}
             \/ ~(\/ \E vals \in DirectWorkouts : OtherInsertWorkout(uid, vals)
                  \/ \E wid \in 1..MaxWorkouts : OtherDeleteWorkout(uid, wid)
                  \/ \E wid \in 1..MaxWorkouts : OtherInsertExercise(uid, wid)
                  \/ \E eid \in 1..MaxExercises : OtherDeleteExercise(uid, eid))]_vars

\* History lists the user's workout with its exercise while the store also
\* holds a workout of another user
C5_OwnListedWitness ==
    /\ page = "history"
    /\ pc = "idle"
    /\ \E i \in 1..Len(hist.workouts) : hist.workouts[i].exercises # {}
    /\ \E w \in workouts : w.user_id # user

\* C6: once saveWorkout's workouts insert has succeeded, every listing of the
\* owner's workouts includes the created record, with the name and the notes
\* that were submitted and the date of the day
C6_CreatedWorkoutListed ==
    [][(saveWorkoutInserted /\ pc' = "insert_exercises") =>
           \A s \in OrderByDateDesc(VisibleWorkouts(user, workouts')) :
               \E k \in 1..Len(s) :
                   /\ s[k].id = created'.id
                   /\ s[k].name = form.workoutName
                   /\ s[k].date = CurrentDate
                   /\ s[k].notes = form.workoutNotes]_vars

\* a workout with a padded name and notes was created on the second day, and
\* the listings of the owner's workouts include it
C6_CreatedWitness ==
    /\ pc = "insert_exercises"
    /\ created.name = <<" ", "a">>
    /\ created.notes = <<"n">>
    /\ created.date = 1
    /\ \A s \in OrderByDateDesc(VisibleWorkouts(user, workouts)) :
          \E k \in 1..Len(s) : s[k] = created

\* C7: in the list Dashboard holds and in the list History holds after the
\* join, every workout's date is greater than or equal to the date of the
\* workout that follows it
C7_ListsOrderedByDateDescending ==
    /\ \A i \in 1..(Len(dash.workouts) - 1) :
          dash.workouts[i].date >= dash.workouts[i + 1].date
    /\ \A i \in 1..(Len(hist.workouts) - 1) :
          hist.workouts[i].date >= hist.workouts[i + 1].date

\* History holds two workouts, the later one first though it was stored last
C7_OrderedWitness ==
    /\ page = "history"
    /\ Len(hist.workouts) = 2
    /\ hist.workouts[1].date > hist.workouts[2].date
    /\ hist.workouts[1].id > hist.workouts[2].id

\* C8: after a successful Dashboard fetch thisWeek is the number of listed
\* workouts dated on or after the calendar date 7 days before today, and
\* thisMonth the number dated on or after the calendar date 30 days before
\* today, whatever the time of day
C8_CountsByCalendarDate ==
    (page = "dashboard" /\ pc = "idle" /\ toast = NoToast) =>
        /\ dash.stats.thisWeek =
              Cardinality({i \in 1..Len(dash.workouts) :
                              dash.workouts[i].date >= CurrentDate - 7})
        /\ dash.stats.thisMonth =
              Cardinality({i \in 1..Len(dash.workouts) :
                              dash.workouts[i].date >= CurrentDate - 30})

\* on 2025-01-31, after 00:00, the workouts dated 2025-01-30, 2025-01-25,
\* 2025-01-01 and 2024-12-01 are counted as 2 this week and 2 this month
C8_ScenarioAfterMidnight ==
    /\ page = "dashboard"
    /\ pc = "idle"
    /\ CurrentDate = DaysFromCivil(2025, 1, 31)
    /\ clock > DateInstant(CurrentDate)
    /\ Len(dash.workouts) = 4
    /\ dash.workouts[1].date = DaysFromCivil(2025, 1, 30)
    /\ dash.workouts[2].date = DaysFromCivil(2025, 1, 25)
    /\ dash.workouts[3].date = DaysFromCivil(2025, 1, 1)
    /\ dash.workouts[4].date = DaysFromCivil(2024, 12, 1)
    /\ dash.stats = [totalWorkouts |-> 4, thisWeek |-> 2, thisMonth |-> 2]

\* C9: after a successful Dashboard fetch totalWorkouts is the length of the
\* displayed list, which is the smaller of 5 and the number of workouts the
\* user owns, so it is never greater than 5
C9_TotalIsWindowLength ==
    (page = "dashboard" /\ pc = "idle" /\ toast = NoToast) =>
        /\ dash.stats.totalWorkouts = Len(dash.workouts)
        /\ Len(dash.workouts) = Min(5, Cardinality({w \in workouts : w.user_id = user}))
        /\ dash.stats.totalWorkouts <= 5

\* the user owns six workouts and Dashboard counts five
C9_WindowWitness ==
    /\ page = "dashboard"
    /\ pc = "idle"
    /\ Cardinality({w \in workouts : w.user_id = user}) = 6
    /\ dash.stats.totalWorkouts = 5

\* C10: whatever the order of the answers, the answer to the request of the
\* i-th workout gives that workout exactly the stored exercises with its id,
\* and the resulting list has the workouts in the order of the workouts query,
\* each with the exercises of its own request
C10_EachWorkoutCarriesItsExercises ==
    [][\A i \in 1..MaxWorkouts :
          HistoryExercises(i) =>
              /\ hReq'[i].exercises = {e \in exercises : e.workout_id = hReq[i].workout.id}
              /\ pc' = "idle" =>
                    /\ Len(hist'.workouts) = Len(hReq)
                    /\ \A j \in 1..Len(hReq) :
                          /\ hist'.workouts[j].id = hReq[j].workout.id
                          /\ hist'.workouts[j].exercises = hReq'[j].exercises]_vars

\* History lists without exercises a workout whose exercise is in the store:
\* its request was answered with an error
C10_FailedFetchListedEmpty ==
    /\ page = "history"
    /\ pc = "idle"
    /\ \E i \in 1..Len(hist.workouts) :
          /\ hist.workouts[i].exercises = {}
          /\ hReq[i].failed
          /\ \E e \in exercises : e.workout_id = hist.workouts[i].id

\* C11: a per-workout exercise fetch the store answers with an error raises
\* History's error notification, and the workout of the failed fetch is not
\* presented in the list
C11_FailedFetchSurfaces ==
    \A i \in 1..Len(hReq) :
        hReq[i].failed =>
            /\ toast = HistoryErrorToast
            /\ \A j \in 1..Len(hist.workouts) : hist.workouts[j].id # hReq[i].workout.id

\* History has finished loading with no notification shown, though the
\* exercise fetch of a listed workout was answered with an error
C11_SwallowedWitness ==
    /\ page = "history"
    /\ pc = "idle"
    /\ ~hist.loading
    /\ toast = NoToast
    /\ \E i \in 1..Len(hReq) :
          /\ hReq[i].failed
          /\ hist.workouts[i].id = hReq[i].workout.id

\* C12: when the exercises insert of saveWorkout fails after its workouts
\* insert succeeded, the error notification is raised and not the success
\* one, and the created workout is left in the store
C12_BatchFailureReported ==
    [][(saveWorkoutExercisesInserted /\ exercises' = exercises) =>
           /\ toast' = SaveErrorToast
           /\ toast' # SavedToast
           /\ page' = "workout"
           /\ workouts' = workouts
           /\ created \in workouts']_vars

\* the save has failed at its exercises insert: the error is shown, the
\* created workout is in the store and has no exercise
C12_WorkoutLeftWitness ==
    /\ page = "workout"
    /\ pc = "idle"
    /\ toast = SaveErrorToast
    /\ created \in workouts
    /\ \A e \in exercises : e.workout_id # created.id

\* C13: every successful mutation that affects a workout, an update of the
\* workout or an insert of an exercise of it, leaves the workout with an
\* updated_at strictly greater than before and with its created_at unchanged
C13_MutationsTouchWorkout ==
    [][\A uid \in Users, wid \in 1..MaxWorkouts :
          ((UpdateWorkout(uid, wid) \/ InsertExercise(uid, wid)) /\ reply'.count > 0) =>
              \E w \in workouts : \E v \in workouts' :
                  /\ w.id = wid
                  /\ v.id = wid
                  /\ v.updated_at > w.updated_at
                  /\ v.created_at = w.created_at]_vars

\* a workout has an exercise created after the workout's updated_at
C13_StaleUpdatedAtWitness ==
    \E w \in workouts : \E e \in exercises :
        /\ e.workout_id = w.id
        /\ e.created_at > w.updated_at

\* C14: in every step in which an exercise disappears from the store, its
\* parent workout is deleted in the same step
C14_OnlyWorkoutDeletionRemovesExercises ==
    [][\A e \in exercises :
          (\A f \in exercises' : f.id # e.id) =>
              /\ \E w \in workouts : w.id = e.workout_id
              /\ \A w \in workouts' : w.id # e.workout_id]_vars

\* an exercise was deleted by a request of its own, and no workout has ever
\* been deleted
C14_ExerciseDeletedWitness ==
    /\ reply.op = "delete_exercise"
    /\ reply.count = 1
    /\ Cardinality(workouts) = nextWid - 1

\* C15: while the exercises insert of saveWorkout is in flight the workouts
\* insert has succeeded and every exercise sent carries the id of the workout
\* it created; a workouts insert that fails is followed by no exercises
\* insert; exercises are stored only by that insert, under the created
\* workout's id; and while a save runs, the success notification and the
\* navigation away happen only in a step that stores the exercises
C15_SaveStepsInOrder ==
    /\ [](pc = "insert_exercises" =>
             /\ created \in workouts
             /\ created.id = nextWid - 1
             /\ \A i \in 1..Len(ExercisesData(created)) :
                   ExercisesData(created)[i].workout_id = created.id)
    /\ [][(pc = "insert_workout" /\ workouts' = workouts) =>
             (pc' # "insert_exercises" /\ exercises' = exercises)]_vars
    /\ [][exercises' # exercises =>
             /\ pc = "insert_exercises"
             /\ \A e \in exercises' \ exercises : e.workout_id = created.id]_vars
    /\ [][(form.saving /\ exercises' = exercises) =>
             /\ page' = "workout"
             /\ toast' = SavedToast => toast = SavedToast]_vars

\* a save of two exercises has run to its end: Dashboard is mounted, the
\* success is shown and both exercises are stored under the one workout
C15_SavedWitness ==
    /\ page = "dashboard"
    /\ toast = SavedToast
    /\ Cardinality(workouts) = 1
    /\ Cardinality(exercises) = 2
    /\ \A e \in exercises : \E w \in workouts : e.workout_id = w.id

\* C16: in every state of Dashboard, 0 <= stats.thisWeek <= stats.thisMonth
\* <= stats.totalWorkouts
C16_StatsOrdered ==
    /\ 0 <= dash.stats.thisWeek
    /\ dash.stats.thisWeek <= dash.stats.thisMonth
    /\ dash.stats.thisMonth <= dash.stats.totalWorkouts

\* Dashboard counts one workout this week, two this month and three in all
C16_StrictWitness ==
    /\ page = "dashboard"
    /\ pc = "idle"
    /\ dash.stats = [totalWorkouts |-> 3, thisWeek |-> 1, thisMonth |-> 2]

\* C17: a save that set saving to true sets it back to false, and a fetch of
\* Dashboard or of History sets loading to false: the flag is false whenever
\* the handler has finished, and every handler finishes once the store has
\* answered
C17_BusyFlagsCleared ==
    /\ [](pc = "idle" =>
             /\ ~form.saving
             /\ page = "dashboard" => ~dash.loading
             /\ page = "history" => ~hist.loading)
    /\ (form.saving ~> ~form.saving)
    /\ ((page = "dashboard" /\ dash.loading) ~> ~dash.loading)
    /\ ((page = "history" /\ hist.loading) ~> ~hist.loading)

\* a save has failed at its exercises insert and the form is no longer saving
C17_SavingClearedWitness ==
    /\ page = "workout"
    /\ pc = "idle"
    /\ toast = SaveErrorToast
    /\ created \in workouts
    /\ ~form.saving
    /\ Len(form.exercises) = 1

\* C18: toggleWorkout(id) negates expanded of exactly the workouts with that
\* id and leaves the other workouts' expanded, every workout's other fields
\* and exercises, and the length and order of the list as they were; the same
\* toggle applied again gives the list back; an id not in the list changes
\* nothing
C18_ToggleFrame ==
    [][\A id \in ToggleIds :
          toggleWorkout(id) =>
              /\ Len(hist'.workouts) = Len(hist.workouts)
              /\ hist'.loading = hist.loading
              /\ \A i \in 1..Len(hist.workouts) :
                    /\ hist'.workouts[i].expanded =
                          (IF hist.workouts[i].id = id
                           THEN ~hist.workouts[i].expanded
                           ELSE hist.workouts[i].expanded)
                    /\ [hist'.workouts[i] EXCEPT !.expanded = FALSE]
                          = [hist.workouts[i] EXCEPT !.expanded = FALSE]
              /\ Toggled(hist'.workouts, id) = hist.workouts
              /\ (\A i \in 1..Len(hist.workouts) : hist.workouts[i].id # id) =>
                    hist' = hist]_vars

\* of two listed workouts the first, which has an exercise, is expanded and
\* the second is not
C18_ToggledWitness ==
    /\ page = "history"
    /\ Len(hist.workouts) = 2
    /\ hist.workouts[1].expanded
    /\ hist.workouts[1].exercises # {}
    /\ ~hist.workouts[2].expanded

=============================================================================
